---------------------------- MODULE Spec2Model ----------------------------
(***************************************************************************)
(* Model of sfdata_wrangler/Trajectory.py: the construction of a vehicle   *)
(* trajectory (an alternating chain of candidate-state collections and     *)
(* candidate-path collections) from a dataframe of GPS observations and a  *)
(* highway network, the scoring of every candidate, and the methods called *)
(* on the trajectory once it is built.                                     *)
(*                                                                         *)
(* The highway network (hwynet) is an external collaborator: its answers   *)
(* to project, getPathsBetweenCollections and                              *)
(* getPathFreeFlowTTInSecondsWithTurnPenalties are nondeterministic        *)
(* inputs, drawn from bounded sets.  Python lists are 0-based; the         *)
(* sequences below are 1-based, so Python's xs[k] is xs[k + 1] here.  The  *)
(* loop counter i keeps its Python value.                                  *)
(***************************************************************************)
EXTENDS Integers, Sequences, FiniteSets, TLC

\* ------------------------------------------------------------------ bounds
MaxObs    == 3    \* rows of the dataframe
MaxStates == 3    \* candidate states of one trajectory, all collections together
MaxPaths  == 2    \* candidate paths of one trajectory, all collections together

\* sys.maxsize of a 32-bit build (2^31 - 1); a 64-bit build has 2^63 - 1
SysMaxsize == 2147483647

\* the values observations, states and paths are drawn from
Dists    == {5, 12}       \* distFromGPS of a candidate state
Seconds  == {80, 150}     \* row['seconds']: elapsed time since the previous row
FreeFlow == {100}         \* free-flow travel time of a path, with turn penalties
LinkCounts == {0, 1}      \* len(path.links): no link, or at least one

\* Python's None, and a value that is not None
None == [none |-> TRUE]

SeqsUpTo(S, n) == UNION {[1..k -> S] : k \in 0..n}

\* the dataframes: rows in time order, row k with time k and its elapsed seconds.
\* The seconds of the first row (no previous row: a placeholder) are never read:
\* the first row is either skipped or the first one kept.
FirstSeconds == {0}
Row(k, s)  == [time |-> k, seconds |-> s]
DataFrames == UNION {{[k \in 1..n |-> Row(k, ss[k])] :
                          ss \in {t \in [1..n -> Seconds \cup FirstSeconds] :
                                     \A k \in 1..n : t[k] \in FirstSeconds <=> k = 1}} :
                         n \in 0..MaxObs}

\* what hwynet.project may return: a list of at most room states, each with its
\* distFromGPS
StatesValues(room) == SeqsUpTo([distFromGPS : Dists], room)

\* a candidate path: None, or a path with its links and the free-flow travel
\* time hwynet computes for it
PathValues == {None} \cup [none : {FALSE}, links : LinkCounts, fftt : FreeFlow]

\* the adjacency lists hwynet returns with the paths ps between the collections
\* a and b, as lists of 0-based index pairs: path k leaves from one state of a,
\* trans1 holds (index of state, index of path), and arrives at one state of b,
\* trans2 holds (index of path, index of state)
Trans1Of(a, ps) == [k \in 1..Len(ps) |-> <<(k - 1) % Len(a.states), k - 1>>]
Trans2Of(ps, b) == [k \in 1..Len(ps) |-> <<k - 1, (k - 1) % Len(b.states)>>]

\* what hwynet.getPathsBetweenCollections(a, b) may return, (trans1, ps, trans2),
\* with at most room paths
PathsBetweenValues(a, b, room) ==
    {[trans1 |-> Trans1Of(a, ps), ps |-> ps, trans2 |-> Trans2Of(ps, b)] :
        ps \in SeqsUpTo(PathValues, room)}

\* ------------------------------------------------------------------- state
VARIABLES
    df,                   \* the dataframe handed to the constructor
    pc,                   \* position in __init__: "step1", "step2", "step3", "done"
    row,                  \* 1-based index of the next row of df.iterrows()
    firstRow,             \* the local firstRow of __init__
    i,                    \* the loop counter of STEP 3 (Python value)
    candidatePoints,      \* self.candidatePoints
    candidatePaths,       \* self.candidatePaths
    traveltimes,          \* self.traveltimes
    features,             \* self.features
    transitions,          \* self.transitions
    most_likely_indices,  \* self.most_likely_indices
    projected,            \* log: what hwynet.project returned, per row read
    queries,              \* log: the calls of hwynet.getPathsBetweenCollections
    raised,               \* the exception the last method call ended with, or "none"
    returned,             \* the method called last and what it returned or wrote
    viterbi,              \* calculateMostLikely's decoder that has computed, or None
    smoother,             \* calculateProbabilities' smoother that has computed, or None
    succeeded             \* history: some calculateMostLikely has returned

vars == <<df, pc, row, firstRow, i, candidatePoints, candidatePaths, traveltimes,
          features, transitions, most_likely_indices, projected, queries, raised,
          returned, viterbi, smoother, succeeded>>

\* the number of candidates in a list of collections
RECURSIVE SumLen(_)
SumLen(lists) == IF lists = <<>> THEN 0 ELSE Len(Head(lists)) + SumLen(Tail(lists))

TotalStates == SumLen([k \in 1..Len(candidatePoints) |-> candidatePoints[k].states])
TotalPaths  == SumLen(candidatePaths)

\* what a caller has got from the method op: its return value, or what it wrote
Returned(op, value) == [op |-> op, value |-> value]

\* ----------------------------------------------------------------- scorers
Max(a, b) == IF a >= b THEN a ELSE b

\* StateCollection(row['cab_id'], states, position, row['time'])
StateCollection(states, time) == [states |-> states, time |-> time]

\* mutant: the two components of the score in the wrong order
point_feature_vector_swapped(sc) ==
    [k \in 1..Len(sc.states) |-> <<-(sc.states[k].distFromGPS), 0>>]

\* point_feature_vector(sc): one [0, -s.distFromGPS] per state, in order
point_feature_vector(sc) ==
    [k \in 1..Len(sc.states) |-> <<0, -(sc.states[k].distFromGPS)>>]

\* hwynet.getPathFreeFlowTTInSecondsWithTurnPenalties(path)
getPathFreeFlowTT(path) == path.fftt

\* mutant: the time saved on the free-flow time is a bonus, not a penalty
path_feature_vector_bonus(path, tt) ==
    IF path = None \/ path.links = 0
    THEN <<-SysMaxsize, 0>>
    ELSE LET path_tt == getPathFreeFlowTT(path)
             score   == -1 * (path_tt - 1 * Max(path_tt - tt, 0))
         IN  <<score, 0>>

\* mutant: the penalty taken for observed time in excess of free-flow time
path_feature_vector_late(path, tt) ==
    IF path = None \/ path.links = 0
    THEN <<-SysMaxsize, 0>>
    ELSE LET path_tt == getPathFreeFlowTT(path)
             score   == -1 * (path_tt + 1 * Max(tt - path_tt, 0))
         IN  <<score, 0>>

\* mutant: a path without links is scored like any other path
path_feature_vector_nolinks(path, tt) ==
    IF path = None
    THEN <<-SysMaxsize, 0>>
    ELSE LET path_tt == getPathFreeFlowTT(path)
             score   == -1 * (path_tt + 1 * Max(path_tt - tt, 0))
         IN  <<score, 0>>

\* path_feature_vector(hwynet, path, tt)
path_feature_vector(path, tt) ==
    IF path = None \/ path.links = 0
    THEN <<-SysMaxsize, 0>>
    ELSE LET path_tt == getPathFreeFlowTT(path)
             score   == -1 * (path_tt + 1 * Max(path_tt - tt, 0))
         IN  <<score, 0>>

\* the inner loop of STEP 3: one feature vector per path of ps, in order
paths_features(ps, tt) == [k \in 1..Len(ps) |-> path_feature_vector(ps[k], tt)]

\* ------------------------------------------------------------- constructor
Init ==
    /\ df \in DataFrames
    /\ pc = "step1"
    /\ row = 1
    /\ firstRow = TRUE
    /\ i = 0
    /\ candidatePoints = <<>>
    /\ candidatePaths = <<>>
    /\ traveltimes = <<>>
    /\ features = <<>>
    /\ transitions = <<>>
    /\ most_likely_indices = None
    /\ projected = <<>>
    /\ queries = <<>>
    /\ raised = "none"
    /\ returned = Returned("__init__", None)
    /\ viterbi = None
    /\ smoother = None
    /\ succeeded = FALSE

\* mutant: the continue is missing, the empty collection is kept
Step1Skip_kept ==
    /\ pc = "step1"
    /\ row <= Len(df)
    /\ projected' = Append(projected, <<>>)
    /\ candidatePoints' = Append(candidatePoints, StateCollection(<<>>, df[row].time))
    /\ traveltimes' = IF ~firstRow THEN Append(traveltimes, df[row].seconds)
                                   ELSE traveltimes
    /\ firstRow' = FALSE
    /\ row' = row + 1
    /\ UNCHANGED <<raised, returned, viterbi, smoother, succeeded,
                   df, pc, i, candidatePaths, features, transitions,
                   most_likely_indices, queries>>

\* STEP 1, one iteration whose point is not near any link: skip the row
Step1Skip ==
    /\ pc = "step1"
    /\ row <= Len(df)
    /\ projected' = Append(projected, <<>>)
    /\ row' = row + 1
    /\ UNCHANGED <<raised, returned, viterbi, smoother, succeeded,
                   df, pc, firstRow, i, candidatePoints, candidatePaths, traveltimes,
                   features, transitions, most_likely_indices, queries>>

\* mutant: the seconds of the first kept row are a travel time too
Step1Keep_always ==
    /\ pc = "step1"
    /\ row <= Len(df)
    /\ \E states \in StatesValues(MaxStates - TotalStates) :
        /\ Len(states) # 0
        /\ projected' = Append(projected, states)
        /\ candidatePoints' =
               Append(candidatePoints, StateCollection(states, df[row].time))
    /\ traveltimes' = Append(traveltimes, df[row].seconds)
    /\ firstRow' = FALSE
    /\ row' = row + 1
    /\ UNCHANGED <<raised, returned, viterbi, smoother, succeeded,
                   df, pc, i,
                   candidatePaths, features, transitions, most_likely_indices,
                   queries>>

\* STEP 1, one iteration whose point projects to at least one state
Step1Keep ==
    /\ pc = "step1"
    /\ row <= Len(df)
    /\ \E states \in StatesValues(MaxStates - TotalStates) :
        /\ Len(states) # 0
        /\ projected' = Append(projected, states)
        /\ candidatePoints' =
               Append(candidatePoints, StateCollection(states, df[row].time))
    /\ traveltimes' = IF ~firstRow THEN Append(traveltimes, df[row].seconds)
                                   ELSE traveltimes
    /\ firstRow' = FALSE
    /\ row' = row + 1
    /\ UNCHANGED <<raised, returned, viterbi, smoother, succeeded,
                   df, pc, i, candidatePaths, features, transitions,
                   most_likely_indices, queries>>

\* the rows are exhausted
Step1End ==
    /\ pc = "step1"
    /\ row > Len(df)
    /\ pc' = "step2"
    /\ UNCHANGED <<raised, returned, viterbi, smoother, succeeded,
                   df, row, firstRow, i, candidatePoints, candidatePaths, traveltimes,
                   features, transitions, most_likely_indices, projected, queries>>

\* mutant: no return on an empty set, so STEP 3 reads candidatePoints[0] and
\* raises IndexError
Step2Empty_noReturn ==
    /\ pc = "step2"
    /\ Len(candidatePoints) = 0
    /\ pc' = "raised"
    /\ UNCHANGED <<raised, returned, viterbi, smoother, succeeded,
                   df, row, firstRow, i, candidatePoints, candidatePaths, traveltimes,
                   features, transitions, most_likely_indices, projected, queries>>

\* STEP 2: an empty set of points ends the constructor
Step2Empty ==
    /\ pc = "step2"
    /\ Len(candidatePoints) = 0
    /\ pc' = "done"
    /\ UNCHANGED <<raised, returned, viterbi, smoother, succeeded,
                   df, row, firstRow, i, candidatePoints, candidatePaths, traveltimes,
                   features, transitions, most_likely_indices, projected, queries>>

\* mutant: the first collection of points is not scored before the loop
Step3First_unscored ==
    /\ pc = "step2"
    /\ Len(candidatePoints) # 0
    /\ i' = 1
    /\ pc' = "step3"
    /\ UNCHANGED <<raised, returned, viterbi, smoother, succeeded,
                   df, row,
                   firstRow, candidatePoints, candidatePaths, traveltimes,
                   features, transitions, most_likely_indices, projected, queries>>

\* STEP 3, before the loop: the features of the first collection of points
Step3First ==
    /\ pc = "step2"
    /\ Len(candidatePoints) # 0
    /\ features' = Append(features, point_feature_vector(candidatePoints[1]))
    /\ i' = 1
    /\ pc' = "step3"
    /\ UNCHANGED <<raised, returned, viterbi, smoother, succeeded,
                   df, row, firstRow, candidatePoints, candidatePaths, traveltimes,
                   transitions, most_likely_indices, projected, queries>>

\* mutant: the two adjacency lists stored in the wrong order
Step3Paths_swapped ==
    /\ pc = "step3"
    /\ i < Len(candidatePoints)
    /\ \E r \in PathsBetweenValues(candidatePoints[i], candidatePoints[i + 1],
                                    MaxPaths - TotalPaths) :
        /\ queries' = Append(queries, [a |-> candidatePoints[i],
                                       b |-> candidatePoints[i + 1],
                                       trans1 |-> r.trans1, ps |-> r.ps,
                                       trans2 |-> r.trans2])
        /\ transitions' = Append(Append(transitions, r.trans2), r.trans1)
        /\ candidatePaths' = Append(candidatePaths, r.ps)
        /\ features' = Append(Append(features, paths_features(r.ps, traveltimes[i])),
                              point_feature_vector(candidatePoints[i + 1]))
    /\ i' = i + 1
    /\ UNCHANGED <<raised, returned, viterbi, smoother, succeeded,
                   df, pc, row, firstRow, candidatePoints, traveltimes,
                   most_likely_indices, projected>>

\* mutant: an empty list of paths is replaced by one sentinel path, None
Step3Paths_sentinel ==
    /\ pc = "step3"
    /\ i < Len(candidatePoints)
    /\ \E r \in PathsBetweenValues(candidatePoints[i], candidatePoints[i + 1],
                                    MaxPaths - TotalPaths) :
        LET ps == IF r.ps = <<>> THEN <<None>> ELSE r.ps
        IN  /\ queries' = Append(queries, [a |-> candidatePoints[i],
                                           b |-> candidatePoints[i + 1],
                                           trans1 |-> r.trans1, ps |-> r.ps,
                                           trans2 |-> r.trans2])
            /\ transitions' = Append(Append(transitions, r.trans1), r.trans2)
            /\ candidatePaths' = Append(candidatePaths, ps)
            /\ features' = Append(Append(features, paths_features(ps, traveltimes[i])),
                                  point_feature_vector(candidatePoints[i + 1]))
    /\ i' = i + 1
    /\ UNCHANGED <<raised, returned, viterbi, smoother, succeeded,
                   df, pc, row, firstRow, candidatePoints, traveltimes,
                   most_likely_indices, projected>>

\* STEP 3, one iteration of the loop over range(1, len(self.candidatePoints))
Step3Paths ==
    /\ pc = "step3"
    /\ i < Len(candidatePoints)
    /\ \E r \in PathsBetweenValues(candidatePoints[i], candidatePoints[i + 1],
                                    MaxPaths - TotalPaths) :
        /\ queries' = Append(queries, [a |-> candidatePoints[i],
                                       b |-> candidatePoints[i + 1],
                                       trans1 |-> r.trans1, ps |-> r.ps,
                                       trans2 |-> r.trans2])
        /\ transitions' = Append(Append(transitions, r.trans1), r.trans2)
        /\ candidatePaths' = Append(candidatePaths, r.ps)
        /\ features' = Append(Append(features, paths_features(r.ps, traveltimes[i])),
                              point_feature_vector(candidatePoints[i + 1]))
    /\ i' = i + 1
    /\ UNCHANGED <<raised, returned, viterbi, smoother, succeeded,
                   df, pc, row, firstRow, candidatePoints, traveltimes,
                   most_likely_indices, projected>>

\* mutant: the loop runs over range(1, len(self.candidatePoints) - 1)
Step3End_early ==
    /\ pc = "step3"
    /\ i + 1 >= Len(candidatePoints)
    /\ pc' = "done"
    /\ UNCHANGED <<raised, returned, viterbi, smoother, succeeded,
                   df, row, firstRow, i, candidatePoints, candidatePaths, traveltimes,
                   features, transitions, most_likely_indices, projected, queries>>

\* the loop of STEP 3 is over: the constructor returns
Step3End ==
    /\ pc = "step3"
    /\ i >= Len(candidatePoints)
    /\ pc' = "done"
    /\ UNCHANGED <<raised, returned, viterbi, smoother, succeeded,
                   df, row, firstRow, i, candidatePoints, candidatePaths, traveltimes,
                   features, transitions, most_likely_indices, projected, queries>>

Next ==
    \/ Step1Skip
    \/ Step1Keep
    \/ Step1End
    \/ Step2Empty
    \/ Step3First
    \/ Step3Paths
    \/ Step3End

Spec == Init /\ [][Next]_vars

\* ------------------------------------------------------------------ methods
\* what TrajectoryViterbi1(traj, THETA).computeAssignments() may leave in
\* viterbi.assignments for the features fs: the decoder is a library outside the
\* repository, known here by the comments at the call only: "The key output are
\* the indices ..., which can be used to look up the specific candidate states
\* and candidate paths", "There is one index for each feature".  A layer without
\* candidates has nothing to look up, so no assignments exist for its lattice.
RECURSIVE ViterbiAssignments(_)
ViterbiAssignments(fs) ==
    IF fs = <<>> THEN {<<>>}
    ELSE {<<idx>> \o rest : idx \in 0..(Len(Head(fs)) - 1),
                            rest \in ViterbiAssignments(Tail(fs))}

\* a value of most_likely_indices that is not None
Indices(a) == [none |-> FALSE, indices |-> a]

\* what TrajectorySmoother1(traj, THETA).computeProbabilities() leaves in
\* smoother.probabilities for the features fs: the smoother is a library outside
\* the repository, known here by the docstring only: "the probabilities for all
\* possible options", which "correspond to the candidate points and candidate
\* paths".  The probability of candidate c of layer k is the unknown <<k, c>>.
SmootherProbabilities(fs) ==
    [k \in 1..Len(fs) |-> [c \in 1..Len(fs[k]) |-> <<k - 1, c - 1>>]]

\* a list a method returns
List(l) == [none |-> FALSE, list |-> l]

\* the fields of the trajectory no method assigns to
lattice == <<candidatePoints, candidatePaths, traveltimes, features, transitions>>

\* what no method touches: the constructor's own state and the oracle's answers
construction == <<df, pc, row, firstRow, i, projected, queries>>

\* mutant: the assignments are stored although the decoder raised
calculateMostLikely_stored ==
    /\ pc = "done"
    /\ \/ /\ raised' = "ValueError"
          /\ most_likely_indices' = Indices(<<>>)
          /\ UNCHANGED succeeded
       \/ /\ \E a \in ViterbiAssignments(features) :
                most_likely_indices' = Indices(a)
          /\ raised' = "none"
          /\ succeeded' = TRUE
    /\ returned' = Returned("calculateMostLikely", None)
    /\ UNCHANGED <<lattice, construction, viterbi, smoother>>

\* calculateMostLikely(): the decoder either raises ValueError, which is printed
\* with the features and the transitions and raised again, or returns, and its
\* assignments become most_likely_indices
calculateMostLikely ==
    /\ pc = "done"
    /\ \/ /\ raised' = "ValueError"
          /\ UNCHANGED <<most_likely_indices, succeeded>>
       \/ /\ \E a \in ViterbiAssignments(features) :
                most_likely_indices' = Indices(a)
          /\ raised' = "none"
          /\ succeeded' = TRUE
    /\ returned' = Returned("calculateMostLikely", None)
    /\ UNCHANGED <<lattice, construction, viterbi, smoother>>

\* calculateProbabilities(): returns the smoother's probabilities
calculateProbabilities ==
    /\ pc = "done"
    /\ returned' = Returned("calculateProbabilities",
                            List(SmootherProbabilities(features)))
    /\ raised' = "none"
    /\ UNCHANGED <<lattice, construction, most_likely_indices, viterbi, smoother,
                   succeeded>>

\* mutant: the first candidate path of every path layer, whatever the index
MostLikelyPaths_first(ind) ==
    [j \in 1..(Len(ind) \div 2) |-> candidatePaths[j][1]]

\* the loop of getMostLikelyPaths over the indices ind: the odd positions
\* i = 2j+1 of ind, counted from 0, are the positions 2j of ind counted from 1
MostLikelyPaths(ind) ==
    [j \in 1..(Len(ind) \div 2) |-> candidatePaths[j][ind[2 * j] + 1]]

\* every candidatePaths[j][most_likely_indices[i]] of that loop exists
PathsInRange(ind) ==
    \A j \in 1..(Len(ind) \div 2) :
       /\ j <= Len(candidatePaths)
       /\ ind[2 * j] + 1 \in 1..Len(candidatePaths[j])

\* mutant: while most_likely_indices is None the decoder is run first
getMostLikelyPaths_lazy ==
    /\ pc = "done"
    /\ IF most_likely_indices = None
       THEN /\ \E a \in ViterbiAssignments(features) :
                  /\ PathsInRange(a)
                  /\ most_likely_indices' = Indices(a)
                  /\ returned' = Returned("getMostLikelyPaths",
                                          List(MostLikelyPaths(a)))
            /\ raised' = "none"
       ELSE /\ raised' = "none"
            /\ returned' = Returned("getMostLikelyPaths",
                               List(MostLikelyPaths(most_likely_indices.indices)))
            /\ UNCHANGED most_likely_indices
    /\ UNCHANGED <<lattice, construction, viterbi, smoother, succeeded>>

\* getMostLikelyPaths(): RuntimeError while most_likely_indices is None, else
\* the list of the paths the odd entries of most_likely_indices select
getMostLikelyPaths ==
    /\ pc = "done"
    /\ IF most_likely_indices = None
       THEN /\ raised' = "RuntimeError"
            /\ returned' = Returned("getMostLikelyPaths", None)
       ELSE IF ~PathsInRange(most_likely_indices.indices)
       THEN /\ raised' = "IndexError"
            /\ returned' = Returned("getMostLikelyPaths", None)
       ELSE /\ raised' = "none"
            /\ returned' = Returned("getMostLikelyPaths",
                               List(MostLikelyPaths(most_likely_indices.indices)))
    /\ UNCHANGED <<lattice, construction, most_likely_indices, viterbi, smoother,
                   succeeded>>

\* mutant: the end time is taken from the same collection as the start time
PathStartEndTimes_same ==
    IF Len(candidatePoints) <= 1 THEN <<>>
    ELSE [k \in 1..(Len(candidatePoints) - 1) |->
             <<candidatePoints[k].time, candidatePoints[k].time>>]

\* the loop of getPathStartEndTimes: (startTime, endTime) for i = 1..len-1
PathStartEndTimes ==
    IF Len(candidatePoints) <= 1 THEN <<>>
    ELSE [k \in 1..(Len(candidatePoints) - 1) |->
             <<candidatePoints[k].time, candidatePoints[k + 1].time>>]

\* getPathStartEndTimes()
getPathStartEndTimes ==
    /\ pc = "done"
    /\ returned' = Returned("getPathStartEndTimes", List(PathStartEndTimes))
    /\ raised' = "none"
    /\ UNCHANGED <<lattice, construction, most_likely_indices, viterbi, smoother,
                   succeeded>>

\* zip() stops at the shortest of its arguments
Min(a, b) == IF a <= b THEN a ELSE b

\* the ids printDebugInfo is called with: none, or (cab_id, trip_id)
Ids == {None, [none |-> FALSE, cab_id |-> 1, trip_id |-> 1]}

\* mutant: k is compared with most_likely after it has been incremented
DebugCandidates_late(candidates, feature, prob, most_likely) ==
    [k \in 1..Min(Len(candidates), Min(Len(feature), Len(prob))) |->
        [CANDIDATE   |-> k - 1,
         candidate   |-> candidates[k],
         feature     |-> feature[k],
         probability |-> prob[k],
         MOST_LIKELY |-> (k = most_likely)]]

\* the inner loop of printDebugInfo: what is written for the candidates of one
\* element, k counted from 0 in the code and from 1 here
DebugCandidates(candidates, feature, prob, most_likely) ==
    [k \in 1..Min(Len(candidates), Min(Len(feature), Len(prob))) |->
        [CANDIDATE   |-> k - 1,
         candidate   |-> candidates[k],
         feature     |-> feature[k],
         probability |-> prob[k],
         MOST_LIKELY |-> (k - 1 = most_likely)]]

\* the body of the outer loop of printDebugInfo for the element n, counted from 0
DebugElement(n, feature, most_likely, prob) ==
    IF n % 2 = 0
    THEN LET j == n \div 2
         IN  [ELEMENT    |-> n,
              Type       |-> "state",
              label      |-> "Timestamp",
              attribute  |-> candidatePoints[j + 1].time,
              candidates |-> DebugCandidates(candidatePoints[j + 1].states,
                                             feature, prob, most_likely)]
    ELSE LET j == (n - 1) \div 2
         IN  [ELEMENT    |-> n,
              Type       |-> "path",
              label      |-> "Travel Time",
              attribute  |-> traveltimes[j + 1],
              candidates |-> DebugCandidates(candidatePaths[j + 1],
                                             feature, prob, most_likely)]

\* what printDebugInfo has written to outstream: the ids, if provided, and the
\* elements (the time of printing and THETA are left out)
Dump(ids, elements) == [none |-> FALSE, ids |-> ids, elements |-> elements]

\* printDebugInfo(outstream, ids): calculateProbabilities(), the header, then
\* one element for each of zip(features, most_likely_indices, probabilities),
\* which raises TypeError while most_likely_indices is None
printDebugInfo ==
    /\ pc = "done"
    /\ \E ids \in Ids :
          LET probabilities == SmootherProbabilities(features)
          IN  IF most_likely_indices = None
              THEN /\ raised' = "TypeError"
                   /\ returned' = Returned("printDebugInfo", Dump(ids, <<>>))
              ELSE LET mli == most_likely_indices.indices
                       n   == Min(Len(features), Min(Len(mli), Len(probabilities)))
                   IN  /\ raised' = "none"
                       /\ returned' = Returned("printDebugInfo",
                             Dump(ids, [k \in 1..n |->
                                 DebugElement(k - 1, features[k], mli[k],
                                              probabilities[k])]))
    /\ UNCHANGED <<lattice, construction, most_likely_indices, viterbi, smoother,
                   succeeded>>

\* no method computes with distFromGPS or looks at the links of a path: the
\* methods are called on trajectories whose candidate states are, in the order
\* hwynet.project returned them, alternately at the two distances, and whose
\* candidate paths are None or have links
DistOps(c) == IF c % 2 = 1 THEN 5 ELSE 12
OpsOracle ==
    /\ \A k \in 1..Len(projected) : \A c \in 1..Len(projected[k]) :
          projected[k][c].distFromGPS = DistOps(c)
    /\ \A j \in 1..Len(queries) : \A c \in 1..Len(queries[j].ps) :
          queries[j].ps[c] = None \/ queries[j].ps[c].links >= 1

\* the constructor, for those trajectories
BuildOps == Next /\ OpsOracle'

NextOps ==
    \/ BuildOps
    \/ calculateMostLikely
    \/ calculateProbabilities
    \/ getMostLikelyPaths
    \/ getPathStartEndTimes
    \/ printDebugInfo

\* the methods are called on trajectories built from traces whose rows are all
\* the same number of seconds apart: no method reads row['seconds']
SecondsOps == {80}
InitOps ==
    /\ Init
    /\ \A k \in 2..Len(df) : df[k].seconds \in SecondsOps

SpecOps == InitOps /\ [][NextOps]_vars

\* ------------------------------------------- two calls at the same time
\* calculateMostLikely and calculateProbabilities called on one trajectory by
\* two threads, each call in two steps: the library computes from the lists it
\* was handed, then the call stores or returns what was computed

\* a decoder that has computed its assignments, a smoother its probabilities
Viterbi(a)  == [none |-> FALSE, assignments |-> a]
Smoother(p) == [none |-> FALSE, probabilities |-> p]

\* calculateMostLikely up to the end of the try block
computeAssignments ==
    /\ pc = "done"
    /\ viterbi = None
    /\ \/ /\ raised' = "ValueError"
          /\ returned' = Returned("calculateMostLikely", None)
          /\ UNCHANGED viterbi
       \/ /\ \E a \in ViterbiAssignments(features) : viterbi' = Viterbi(a)
          /\ UNCHANGED <<raised, returned>>
    /\ UNCHANGED <<lattice, construction, most_likely_indices, smoother, succeeded>>

\* the last line of calculateMostLikely
storeAssignments ==
    /\ pc = "done"
    /\ viterbi # None
    /\ most_likely_indices' = Indices(viterbi.assignments)
    /\ viterbi' = None
    /\ succeeded' = TRUE
    /\ raised' = "none"
    /\ returned' = Returned("calculateMostLikely", None)
    /\ UNCHANGED <<lattice, construction, smoother>>

\* mutant: once there are assignments, the smoother gives the probabilities of
\* the assigned candidates only
computeProbabilities_assigned ==
    /\ pc = "done"
    /\ smoother = None
    /\ smoother' = Smoother(
           IF most_likely_indices = None
           THEN SmootherProbabilities(features)
           ELSE [k \in 1..Len(features) |->
                    <<<<k - 1, most_likely_indices.indices[k]>>>>])
    /\ UNCHANGED <<lattice, construction, most_likely_indices, viterbi, succeeded,
                   raised, returned>>

\* calculateProbabilities up to computeProbabilities()
computeProbabilities ==
    /\ pc = "done"
    /\ smoother = None
    /\ smoother' = Smoother(SmootherProbabilities(features))
    /\ UNCHANGED <<lattice, construction, most_likely_indices, viterbi, succeeded,
                   raised, returned>>

\* the last line of calculateProbabilities
returnProbabilities ==
    /\ pc = "done"
    /\ smoother # None
    /\ returned' = Returned("calculateProbabilities", List(smoother.probabilities))
    /\ smoother' = None
    /\ raised' = "none"
    /\ UNCHANGED <<lattice, construction, most_likely_indices, viterbi, succeeded>>

NextConc ==
    \/ BuildOps
    \/ computeAssignments
    \/ storeAssignments
    \/ computeProbabilities
    \/ returnProbabilities

SpecConc == InitOps /\ [][NextConc]_vars

\* the constructor has returned
Built == pc = "done"

\* ------------------------------------------------------------------ claims
NLocations == Len(candidatePoints)
NPaths     == Len(candidatePaths)

\* the rows among the first n whose projection gave at least one state, in order
RECURSIVE KeptRows(_)
KeptRows(n) ==
    IF n = 0 THEN <<>>
    ELSE IF projected[n] # <<>> THEN Append(KeptRows(n - 1), n) ELSE KeptRows(n - 1)

Dropped(n) == {k \in 1..n : projected[k] = <<>>}

\* a path that is scored by its travel time: not None, at least one link
HasLinks(path) == path # None /\ path.links >= 1

\* C1, as stated: in every lattice the constructor produces, the number of path
\* layers is the number of location layers minus 1.
C1_AsClaimed == Built => NPaths = NLocations - 1

\* C1, amended: in every lattice with at least one location layer, the number of
\* path layers is the number of location layers minus 1; the empty lattice has no
\* path layer.
C1_PathLayers ==
    Built => /\ NLocations >= 1 => NPaths = NLocations - 1
             /\ NLocations = 0 => NPaths = 0

C1_Witness == Built /\ NLocations = 3 /\ NPaths = 2 /\ Dropped(Len(df)) = {}

\* C2: an observation whose projection is empty is dropped and emits no layer:
\* at every point of the constructor the location layers are exactly the rows
\* read so far that have at least one candidate, in their original order, each
\* with its states and its time, so there is one layer fewer per dropped row.
C2_DroppedObservations ==
    LET n    == Len(projected)
        kept == KeptRows(n)
    IN  /\ n = row - 1
        /\ pc \in {"step1", "step2", "step3", "done"}
        /\ NLocations = n - Cardinality(Dropped(n))
        /\ NLocations = Len(kept)
        /\ \A j \in 1..NLocations :
              /\ candidatePoints[j].states = projected[kept[j]]
              /\ candidatePoints[j].states # <<>>
              /\ candidatePoints[j].time = df[kept[j]].time

C2_Witness ==
    /\ Built
    /\ Len(df) = 3
    /\ Dropped(3) = {2}
    /\ NLocations = 2

\* C3: for each consecutive pair of retained location layers the oracle is asked
\* once, with exactly that pair, and its candidate paths and both adjacency lists
\* are stored unchanged as the path layer between them; three observations whose
\* middle one has no candidate give 2 location layers and 1 path layer, which
\* connects the first and the third observation.
C3_PathLayerVerbatim ==
    Built =>
      /\ Len(queries) = NPaths
      /\ Len(transitions) = 2 * NPaths
      /\ NLocations >= 1 => Len(queries) = NLocations - 1
      /\ \A j \in 1..Len(queries) :
            /\ queries[j].a = candidatePoints[j]
            /\ queries[j].b = candidatePoints[j + 1]
            /\ candidatePaths[j] = queries[j].ps
            /\ transitions[2 * j - 1] = queries[j].trans1
            /\ transitions[2 * j] = queries[j].trans2
      /\ (Len(df) = 3 /\ Dropped(3) = {2}) =>
            /\ NLocations = 2
            /\ NPaths = 1
            /\ queries[1].a = StateCollection(projected[1], df[1].time)
            /\ queries[1].b = StateCollection(projected[3], df[3].time)

C3_Witness ==
    /\ Built
    /\ Len(df) = 3
    /\ Dropped(3) = {2}
    /\ NPaths = 1
    /\ Len(candidatePaths[1]) = 2
    /\ transitions[1] # transitions[2]

\* C4: when no observation survives (an empty trace, or every projection empty)
\* the constructor finishes without an error and the lattice is empty: no
\* location layer, no path layer, no travel time, no feature, no transition, and
\* the oracle is never asked for connecting paths.
C4_EmptyLattice ==
    (pc # "step1" /\ Dropped(Len(df)) = 1..Len(df)) =>
      /\ pc \in {"step2", "done"}
      /\ candidatePoints = <<>>
      /\ candidatePaths = <<>>
      /\ traveltimes = <<>>
      /\ features = <<>>
      /\ transitions = <<>>
      /\ queries = <<>>
      /\ most_likely_indices = None

C4_Witness == Built /\ Len(df) = 3 /\ Dropped(3) = {1, 2, 3} /\ features = <<>>

\* C5: for every location layer there is one feature vector per candidate state,
\* in candidate order, equal to (0, -distFromGPS): distance 5 gives (0, -5) and
\* distance 12 gives (0, -12).
C5_PointScores ==
    Built =>
      \A j \in 1..NLocations :
         LET f  == features[2 * j - 1]
             sc == candidatePoints[j]
         IN  /\ Len(f) = Len(sc.states)
             /\ \A c \in 1..Len(f) :
                   /\ f[c][1] = 0
                   /\ f[c][2] + sc.states[c].distFromGPS = 0
                   /\ sc.states[c].distFromGPS = 5 => f[c] = <<0, -5>>
                   /\ sc.states[c].distFromGPS = 12 => f[c] = <<0, -12>>

C5_Witness ==
    /\ Built
    /\ NLocations = 2
    /\ candidatePoints[2].states = <<[distFromGPS |-> 5], [distFromGPS |-> 12]>>
    /\ features[3] = <<<<0, -5>>, <<0, -12>>>>

\* C6: every candidate path with at least one link is scored
\* (-(freeFlowTT + max(freeFlowTT - observed, 0)), 0), observed being the travel
\* time of its path layer: twice the free-flow time less the observed time when the
\* free-flow time exceeds it, the free-flow time otherwise.  Free-flow 100 against
\* observed 80 scores -120, against observed 150 it scores -100.
C6_PathScores ==
    Built =>
      \A j \in 1..NPaths :
         \A c \in 1..Len(candidatePaths[j]) :
            LET path == candidatePaths[j][c]
                tt   == traveltimes[j]
                f    == features[2 * j][c]
            IN  HasLinks(path) =>
                  /\ f[2] = 0
                  /\ path.fftt > tt => f[1] = tt - 2 * path.fftt
                  /\ path.fftt <= tt => f[1] = -path.fftt
                  /\ (path.fftt = 100 /\ tt = 80) => f = <<-120, 0>>
                  /\ (path.fftt = 100 /\ tt = 150) => f = <<-100, 0>>

C6_Witness ==
    /\ Built
    /\ NPaths = 2
    /\ Len(candidatePaths[1]) >= 1 /\ Len(candidatePaths[2]) >= 1
    /\ HasLinks(candidatePaths[1][1]) /\ traveltimes[1] = 80
    /\ features[2][1] = <<-120, 0>>
    /\ HasLinks(candidatePaths[2][1]) /\ traveltimes[2] = 150
    /\ features[4][1] = <<-100, 0>>

Decoded == most_likely_indices # None

\* the method called last is calculateMostLikely
DecodeCalled == returned.op = "calculateMostLikely"

\* the path layers for which the oracle returned no candidate path
EmptyAnswers == {j \in 1..Len(queries) : queries[j].ps = <<>>}

\* the Assignment selects, at path layer j, a path with the sentinel score
SelectsSentinel(j) ==
    LET idx == most_likely_indices.indices[2 * j]
    IN  /\ idx + 1 <= Len(candidatePaths[j])
        /\ features[2 * j][idx + 1] = <<-SysMaxsize, 0>>

ScoreDists    == Dists \cup {0}
ScoreFreeFlow == FreeFlow \cup {0}
ScoreSeconds  == Seconds \cup {-80, 0}

\* C25: no score is positive: both components of every feature vector of the
\* built lattice are <= 0 and the score of a path that is not None is at most minus
\* its free-flow time; so it is for every state with distFromGPS >= 0 and every
\* path with a free-flow time >= 0, whatever the observed elapsed time.
C25_ScoresNotPositive ==
    Built =>
      /\ \A k \in 1..Len(features) : \A c \in 1..Len(features[k]) :
            features[k][c][1] <= 0 /\ features[k][c][2] <= 0
      /\ \A j \in 1..Min(NPaths, Len(features) \div 2) :
            \A c \in 1..Min(Len(candidatePaths[j]), Len(features[2 * j])) :
               candidatePaths[j][c] # None =>
                  features[2 * j][c][1] <= -getPathFreeFlowTT(candidatePaths[j][c])
      /\ \A d \in ScoreDists :
            LET f == point_feature_vector(
                         StateCollection(<<[distFromGPS |-> d]>>, 0))[1]
            IN  f[1] <= 0 /\ f[2] <= 0
      /\ \A tt \in ScoreSeconds :
            /\ path_feature_vector(None, tt)[1] <= 0
            /\ path_feature_vector(None, tt)[2] <= 0
            /\ \A l \in LinkCounts : \A t \in ScoreFreeFlow :
                  LET f == path_feature_vector(
                               [none |-> FALSE, links |-> l, fftt |-> t], tt)
                  IN  f[1] <= 0 /\ f[2] <= 0 /\ f[1] <= -t

C25_Witness ==
    /\ Built
    /\ NPaths = 1
    /\ traveltimes = <<80>>
    /\ Len(candidatePaths[1]) = 2
    /\ HasLinks(candidatePaths[1][1])
    /\ features[2] = <<<<-120, 0>>, <<-SysMaxsize, 0>>>>
    /\ features[1] = <<<<0, -12>>>>

\* C26: in every lattice with at least one location layer the features and the
\* transitions are aligned with the layers: there are 2 * NLocations - 1 lists of
\* features and one list of transitions fewer; counted from 0, features[2i] has
\* one entry per state of location layer i, features[2j+1] one entry per path of
\* path layer j, transitions[2j] is the adjacency the oracle returned first for
\* path layer j (from the states to the paths) and transitions[2j+1] the one it
\* returned last (from the paths to the states).
C26_Aligned ==
    (Built /\ NLocations >= 1) =>
      /\ Len(features) = 2 * NLocations - 1
      /\ Len(transitions) = Len(features) - 1
      /\ NPaths = NLocations - 1
      /\ Len(queries) = NPaths
      /\ \A l \in 1..NLocations :
            Len(features[2 * l - 1]) = Len(candidatePoints[l].states)
      /\ \A j \in 1..NPaths :
            /\ Len(features[2 * j]) = Len(candidatePaths[j])
            /\ candidatePaths[j] = queries[j].ps
            /\ transitions[2 * j - 1] = queries[j].trans1
            /\ transitions[2 * j - 1] =
                   Trans1Of(candidatePoints[j], candidatePaths[j])
            /\ transitions[2 * j] = queries[j].trans2
            /\ transitions[2 * j] =
                   Trans2Of(candidatePaths[j], candidatePoints[j + 1])

C26_Witness ==
    /\ Built
    /\ NLocations = 2
    /\ Len(features) = 3
    /\ Len(features[1]) = 2 /\ Len(candidatePoints[1].states) = 2
    /\ Len(features[2]) = 2 /\ Len(candidatePaths[1]) = 2
    /\ Len(features[3]) = 1
    /\ Len(transitions) = 2
    /\ transitions[1] = <<<<0, 0>>, <<1, 1>>>>
    /\ transitions[2] = <<<<0, 0>>, <<1, 0>>>>

\* C27: whatever rows are dropped, leading ones included, there is one travel
\* time per location layer after the first, so one per path layer of the built
\* lattice, and the travel time the paths of path layer j are scored with is the
\* seconds of the later of the two kept rows alone: the seconds of the rows
\* dropped in between are not added to it, and the seconds of the first kept row
\* are no travel time.
C27_TravelTimes ==
    LET kept == KeptRows(Len(projected))
    IN  /\ Len(traveltimes) = Max(NLocations - 1, 0)
        /\ Len(kept) = NLocations
        /\ \A j \in 1..Len(traveltimes) : traveltimes[j] = df[kept[j + 1]].seconds
        /\ Built =>
              /\ Len(traveltimes) = NPaths
              /\ \A j \in 1..NPaths :
                    /\ Len(features[2 * j]) = Len(candidatePaths[j])
                    /\ \A c \in 1..Len(candidatePaths[j]) :
                          features[2 * j][c] =
                              path_feature_vector(candidatePaths[j][c],
                                                  df[kept[j + 1]].seconds)

C27_Witness ==
    /\ Built
    /\ Len(df) = 3
    /\ Dropped(3) = {2}
    /\ df[2].seconds = 150 /\ df[3].seconds = 80
    /\ traveltimes = <<80>>
    /\ Len(candidatePaths[1]) = 1
    /\ features[2] = <<<<-120, 0>>>>

\* C28: when getMostLikelyPaths is called after calculateMostLikely has returned,
\* it raises nothing and returns one path per path layer, in the order of the
\* layers: counted from 0, the j-th is candidatePaths[j][most_likely_indices[2j+1]];
\* the entries of most_likely_indices at the even positions, those of the
\* location layers, are not used.
C28_MostLikelyPaths ==
    (returned.op = "getMostLikelyPaths" /\ Decoded) =>
       /\ succeeded
       /\ raised = "none"
       /\ returned.value # None
       /\ LET paths == returned.value.list
              mli   == most_likely_indices.indices
          IN  /\ Len(paths) = NPaths
              /\ \A j \in 1..NPaths :
                    /\ 2 * j <= Len(mli)
                    /\ mli[2 * j] + 1 \in 1..Len(candidatePaths[j])
                    /\ paths[j] = candidatePaths[j][mli[2 * j] + 1]

C28_Witness ==
    /\ returned.op = "getMostLikelyPaths"
    /\ Decoded
    /\ NPaths = 1
    /\ most_likely_indices.indices = <<0, 1, 0>>
    /\ candidatePaths[1] = <<[none |-> FALSE, links |-> 1, fftt |-> 100], None>>
    /\ returned.value = List(<<None>>)

\* C29: getPathStartEndTimes raises nothing and returns one (startTime, endTime)
\* per path layer, the j-th holding the times of the j-th and the (j+1)-th kept
\* row; the endTime of each pair is the startTime of the next, and the list is
\* empty when the lattice has no or one location layer.
C29_StartEndTimes ==
    returned.op = "getPathStartEndTimes" =>
       /\ raised = "none"
       /\ returned.value # None
       /\ LET times == returned.value.list
              kept  == KeptRows(Len(projected))
          IN  /\ Len(times) = NPaths
              /\ NLocations <= 1 => times = <<>>
              /\ \A j \in 1..NPaths :
                    times[j] = <<df[kept[j]].time, df[kept[j + 1]].time>>
              /\ \A j \in 1..(NPaths - 1) : times[j][2] = times[j + 1][1]

C29_Witness ==
    /\ returned = Returned("getPathStartEndTimes", List(<<<<1, 2>>, <<2, 3>>>>))
    /\ NPaths = 2

\* C30: in every sequence of calls most_likely_indices is assigned only by a
\* calculateMostLikely that raises nothing; a calculateMostLikely that raises
\* ValueError leaves most_likely_indices as it was; and as long as no
\* calculateMostLikely has returned, getMostLikelyPaths raises RuntimeError and
\* changes no field of the trajectory.
C30_SetOnlyBySuccess ==
    [][/\ most_likely_indices' # most_likely_indices =>
             calculateMostLikely /\ raised' = "none" /\ succeeded'
       /\ (calculateMostLikely /\ raised' = "ValueError") =>
             UNCHANGED <<most_likely_indices, succeeded>>
       /\ succeeded' # succeeded =>
             calculateMostLikely /\ raised' = "none"
       /\ (getMostLikelyPaths /\ ~succeeded) =>
             /\ raised' = "RuntimeError"
             /\ returned' = Returned("getMostLikelyPaths", None)
             /\ UNCHANGED <<lattice, most_likely_indices>>]_vars

C30_Witness ==
    /\ succeeded
    /\ returned.op = "calculateMostLikely"
    /\ raised = "ValueError"
    /\ most_likely_indices = Indices(<<1, 0, 0>>)

\* C23: once the constructor has returned, no call of calculateMostLikely,
\* calculateProbabilities, getMostLikelyPaths, getPathStartEndTimes or
\* printDebugInfo, in any sequence, changes candidatePoints, candidatePaths,
\* traveltimes, features or transitions; most_likely_indices is the only field
\* that changes, and only a call of calculateMostLikely changes it.
C23_Immutable ==
    [][Built =>
          /\ UNCHANGED lattice
          /\ UNCHANGED construction
          /\ most_likely_indices' # most_likely_indices => calculateMostLikely]_vars

C23_Witness ==
    /\ returned.op = "calculateProbabilities"
    /\ Decoded
    /\ NPaths = 2
    /\ Len(features) = 5
    /\ Len(transitions) = 4

\* the candidates of layer n of the lattice, n counted from 1: the states of a
\* location layer at the odd n, the paths of a path layer at the even n
Candidates(n) ==
    IF n % 2 = 1 THEN candidatePoints[(n + 1) \div 2].states
                 ELSE candidatePaths[n \div 2]

\* C24: when printDebugInfo is called after calculateMostLikely has returned, it
\* raises nothing and writes one element per layer of the lattice, in the order
\* of the layers and numbered from 0, of type 'state' at the even numbers and
\* 'path' at the odd ones; for each layer it writes every candidate, in the
\* order of the indices, with its feature vector and its probability, and it
\* marks as most likely exactly one candidate of the layer, the one whose index
\* is the entry of most_likely_indices for the layer.
C24_DebugInfo ==
    (returned.op = "printDebugInfo" /\ Decoded) =>
       /\ raised = "none"
       /\ LET elements == returned.value.elements
              mli      == most_likely_indices.indices
              probs    == SmootherProbabilities(features)
          IN  /\ Len(elements) = NLocations + NPaths
              /\ Len(elements) = Len(features)
              /\ \A n \in 1..Len(elements) :
                    LET e == elements[n]
                    IN  /\ e.ELEMENT = n - 1
                        /\ e.Type = IF (n - 1) % 2 = 0 THEN "state" ELSE "path"
                        /\ Len(e.candidates) = Len(Candidates(n))
                        /\ \A k \in 1..Len(e.candidates) :
                              /\ e.candidates[k].CANDIDATE = k - 1
                              /\ e.candidates[k].candidate = Candidates(n)[k]
                              /\ e.candidates[k].feature = features[n][k]
                              /\ e.candidates[k].probability = probs[n][k]
                              /\ e.candidates[k].MOST_LIKELY <=> (k - 1 = mli[n])
                        /\ Cardinality({k \in 1..Len(e.candidates) :
                                           e.candidates[k].MOST_LIKELY}) = 1

C24_Witness ==
    /\ returned.op = "printDebugInfo"
    /\ raised = "none"
    /\ most_likely_indices = Indices(<<1, 0, 0>>)
    /\ Len(returned.value.elements) = 3
    /\ returned.value.elements[2].Type = "path"
    /\ Len(returned.value.elements[1].candidates) = 2
    /\ ~returned.value.elements[1].candidates[1].MOST_LIKELY
    /\ returned.value.elements[1].candidates[2].MOST_LIKELY

\* C22: calculateMostLikely and calculateProbabilities called on one built
\* trajectory, one after the other or with their steps interleaved in any way,
\* each give what they give when called alone, the probabilities of the lattice
\* and assignments of the lattice: no step of one changes what the other reads,
\* the lattice, or what the other has computed.
C22_Independent ==
    [][/\ (computeProbabilities \/ returnProbabilities) =>
             UNCHANGED <<lattice, most_likely_indices, viterbi, succeeded>>
       /\ (computeAssignments \/ storeAssignments) =>
             UNCHANGED <<lattice, smoother>>
       /\ returnProbabilities =>
             returned'.value = List(SmootherProbabilities(features))
       /\ storeAssignments =>
             /\ most_likely_indices' = Indices(viterbi.assignments)
             /\ viterbi.assignments \in ViterbiAssignments(features)]_vars

C22_Witness ==
    /\ Built
    /\ NPaths = 1
    /\ viterbi # None
    /\ smoother # None
    /\ Decoded
    /\ viterbi.assignments # most_likely_indices.indices

TypeOK ==
    /\ df \in DataFrames
    /\ pc \in {"step1", "step2", "step3", "done"}
    /\ row \in 1..(MaxObs + 1)
    /\ firstRow \in BOOLEAN
    /\ i \in 0..MaxObs
    /\ succeeded \in BOOLEAN
    /\ viterbi \in {None} \cup {Viterbi(a) : a \in ViterbiAssignments(features)}
    /\ smoother \in {None, Smoother(SmootherProbabilities(features))}
    /\ raised \in {"none", "ValueError", "RuntimeError", "IndexError", "TypeError"}
    /\ returned.op \in {"__init__", "calculateMostLikely", "calculateProbabilities",
                       "getMostLikelyPaths", "getPathStartEndTimes",
                       "printDebugInfo"}
    /\ \/ most_likely_indices = None
       \/ /\ pc = "done"
          /\ most_likely_indices \in
                 {Indices(a) : a \in ViterbiAssignments(features)}

=============================================================================
